---- MODULE Spec2Model ----
(***************************************************************************)
(* Model of the desktop license-activation commands of                     *)
(* src-tauri/src/lib.rs: get_machine_id, get_stored_license,               *)
(* validate_license and clear_license, over the "license.json" store.      *)
(*                                                                         *)
(* Text that the code inspects character by character (hostname, username) *)
(* is a sequence of Unicode code points; every other string is a TLA+      *)
(* string.  A u64 is a sequence of four 16-bit limbs, least significant    *)
(* first, so that wrapping arithmetic is computed exactly.                 *)
(***************************************************************************)
EXTENDS Integers, Sequences, FiniteSets, Bags, TLC

(***************************************************************************)
(* Bounds of the model.                                                    *)
(***************************************************************************)
\* number of validate_license invocations that may be in flight together
MaxCalls == 2
\* longest hostname and longest username that HashSpec draws
MaxNameLen == 6

(***************************************************************************)
(* Option and Result values.                                               *)
(***************************************************************************)
None == [tag |-> "None"]
Some(v) == [tag |-> "Some", val |-> v]
Ok(v) == [tag |-> "Ok", val |-> v]
Err(e) == [tag |-> "Err", msg |-> e]
IsSome(o) == o.tag = "Some"
IsOk(r) == r.tag = "Ok"
IsErr(r) == r.tag = "Err"

(***************************************************************************)
(* u64 wrapping arithmetic (lib.rs:41-44).                                 *)
(***************************************************************************)
LimbBase == 65536
U64Zero == <<0, 0, 0, 0>>

\* (v as u64) for a value below 2^31
ToU64(v) == <<v % LimbBase, v \div LimbBase, 0, 0>>

\* u64::wrapping_add: the carry out of the top limb is dropped
wrapping_add(a, b) ==
    LET s1 == a[1] + b[1]
        s2 == a[2] + b[2] + (s1 \div LimbBase)
        s3 == a[3] + b[3] + (s2 \div LimbBase)
        s4 == a[4] + b[4] + (s3 \div LimbBase)
    IN  <<s1 % LimbBase, s2 % LimbBase, s3 % LimbBase, s4 % LimbBase>>

\* u64::wrapping_mul by a multiplier k below 2^15
wrapping_mul(a, k) ==
    LET p1 == a[1] * k
        p2 == a[2] * k + (p1 \div LimbBase)
        p3 == a[3] * k + (p2 \div LimbBase)
        p4 == a[4] * k + (p3 \div LimbBase)
    IN  <<p1 % LimbBase, p2 % LimbBase, p3 % LimbBase, p4 % LimbBase>>

HexDigit(d) ==
    CASE d = 0 -> "0" [] d = 1 -> "1" [] d = 2 -> "2" [] d = 3 -> "3"
      [] d = 4 -> "4" [] d = 5 -> "5" [] d = 6 -> "6" [] d = 7 -> "7"
      [] d = 8 -> "8" [] d = 9 -> "9" [] d = 10 -> "A" [] d = 11 -> "B"
      [] d = 12 -> "C" [] d = 13 -> "D" [] d = 14 -> "E" [] d = 15 -> "F"

\* the four upper-case hex digits of one limb
HexLimb(l) ==
    HexDigit(l \div 4096) \o HexDigit((l \div 256) % 16)
        \o HexDigit((l \div 16) % 16) \o HexDigit(l % 16)

\* format!("{:016X}", hash)
FormatHex16(h) == HexLimb(h[4]) \o HexLimb(h[3]) \o HexLimb(h[2]) \o HexLimb(h[1])

\* variant: the position is used as the multiplier, not the position plus one
RECURSIVE HashFoldZeroBased(_, _)
HashFoldZeroBased(input, n) ==
    IF n = 0 THEN U64Zero
    ELSE LET hash == HashFoldZeroBased(input, n - 1)
             added == wrapping_add(hash, wrapping_mul(ToU64(input[n]), n - 1))
         IN  wrapping_mul(added, 31)

\* the loop of simple_hash over input[1..n]
RECURSIVE HashFold(_, _)
HashFold(input, n) ==
    IF n = 0 THEN U64Zero
    ELSE LET hash == HashFold(input, n - 1)
             added == wrapping_add(hash, wrapping_mul(ToU64(input[n]), n))
         IN  wrapping_mul(added, 31)

simple_hash(input) == FormatHex16(HashFold(input, Len(input)))

(***************************************************************************)
(* Host identity attributes read by get_machine_id.                        *)
(***************************************************************************)
\* "box1"
HostBox1 == <<98, 111, 120, 49>>
\* "alice"
UserAlice == <<97, 108, 105, 99, 101>>
\* "unknown"
Unknown == <<117, 110, 107, 110, 111, 119, 110>>
\* ":"
Colon == <<58>>

\* outcomes of hostname::get()
HostnameResults == {Ok(HostBox1), Err("hostname lookup failed")}
Usernames == {UserAlice}

\* get_machine_id on a host whose hostname::get() yields h and whose user is u
get_machine_id(h, u) ==
    LET hostname == IF IsOk(h) THEN h.val ELSE Unknown
        machine_info == hostname \o Colon \o u
    IN  "DSK-" \o simple_hash(machine_info)

(***************************************************************************)
(* JSON values and the two serde types (lib.rs:6-20).                      *)
(* A JSON object is a record of its members; decoding checks the members   *)
(* the target type requires.                                               *)
(***************************************************************************)
StoredLicenseFields == {"code", "plan_tier", "activated_at", "machine_id"}

\* serde_json::to_value(&stored_license)
to_value(license) ==
    [code |-> license.code, plan_tier |-> license.plan_tier,
     activated_at |-> license.activated_at, machine_id |-> license.machine_id]

\* serde_json::from_value::<StoredLicense>(value)
from_value(value) ==
    IF StoredLicenseFields \subseteq DOMAIN value
    THEN Ok([code |-> value.code, plan_tier |-> value.plan_tier,
             activated_at |-> value.activated_at, machine_id |-> value.machine_id])
    ELSE Err("missing field")

LicenseValidation(valid, plan_tier, error) ==
    [valid |-> valid, plan_tier |-> plan_tier, error |-> error]

\* response bodies the authority (or a proxy in front of it) may send
BodyPro == "{\"valid\":true,\"plan_tier\":\"pro\"}"
BodyNoTier == "{\"valid\":true}"
BodyRevoked == "{\"valid\":false,\"error\":\"revoked\"}"
BodyInvalidTier == "{\"valid\":false,\"plan_tier\":\"pro\"}"
BodyValidError == "{\"valid\":true,\"plan_tier\":\"team\",\"error\":\"grace period\"}"
BodyExpired == "{\"reason\":\"expired\"}"

\* serde decoding of a body as LicenseValidation: valid is required, the
\* two Option members default to None
DecodeValidation(text) ==
    CASE text = BodyPro -> Ok(LicenseValidation(TRUE, Some("pro"), None))
      [] text = BodyNoTier -> Ok(LicenseValidation(TRUE, None, None))
      [] text = BodyRevoked -> Ok(LicenseValidation(FALSE, None, Some("revoked")))
      [] text = BodyInvalidTier -> Ok(LicenseValidation(FALSE, Some("pro"), None))
      [] text = BodyValidError ->
            Ok(LicenseValidation(TRUE, Some("team"), Some("grace period")))
      [] OTHER -> Err("missing field valid")

(***************************************************************************)
(* What the network can answer to the POST of validate_license.            *)
(* send is the outcome of send().await; body that of reading the body.     *)
(***************************************************************************)
TransportFailure == [send |-> Err("error sending request")]
HttpResponse(status, body) == [send |-> Ok([status |-> status, body |-> body])]
BodyUnreadable == Err("error decoding response body")

Responses ==
    {TransportFailure}
    \cup {HttpResponse(200, b) : b \in {Ok(BodyPro), Ok(BodyNoTier), Ok(BodyRevoked),
                                        Ok(BodyInvalidTier), Ok(BodyValidError),
                                        Ok(BodyExpired), BodyUnreadable}}
    \cup {HttpResponse(403, b) : b \in {Ok(BodyExpired), Ok(BodyPro), BodyUnreadable}}

\* variant: the status is not consulted
any_status(status) == TRUE

\* StatusCode::is_success
is_success(status) == status >= 200 /\ status < 300

\* response.text().await
ResponseText(resp) == resp.body

\* response.json::<LicenseValidation>().await
ResponseJson(resp) ==
    IF IsOk(resp.body) THEN DecodeValidation(resp.body.val) ELSE resp.body

(***************************************************************************)
(* The store "license.json" (tauri_plugin_store): the value under the key  *)
(* "license" as store.get, store.set and store.delete see it.  What the    *)
(* store's file holds is never read by the commands; of store.save() the   *)
(* model keeps the outcome.                                                *)
(***************************************************************************)
\* outcomes of app.store("license.json")
StoreOpenResults == {Ok("license.json"), Err("failed to open store")}
\* outcomes of store.save()
SaveResults == {Ok("saved"), Err("failed to write store")}

\* readings chrono::Utc::now() may give (the wall clock is not monotonic),
\* as the day of January 2024
ClockReadings == {1, 2}

\* DateTime::to_rfc3339
to_rfc3339(now) == "2024-01-0" \o ToString(now) \o "T00:00:00+00:00"

\* records a store file may hold before the application first runs: one
\* activated under another identity, and one that is no StoredLicense
ForeignLicense ==
    [code |-> "LIC-OLD", plan_tier |-> "pro",
     activated_at |-> "2023-06-01T00:00:00+00:00", machine_id |-> "DSK-OLD"]
CorruptValue == [code |-> "LIC-OLD", plan_tier |-> "pro"]
InitialStoreValues == {None, Some(to_value(ForeignLicense)), Some(CorruptValue)}

\* license codes a user may enter, and the authority's base URL
LicenseCodes == {"LIC-A", "LIC-B"}
SupabaseUrl == "https://project.supabase.co"

VARIABLES
    hostname,   \* outcome hostname::get() has on this host
    username,   \* whoami::username() on this host
    store,      \* Option: store.get("license") in the running process
    calls,      \* bag of validate_license invocations awaiting the response
    last        \* the command that returned last, its inputs and its value

vars == <<hostname, username, store, calls, last>>

current_machine_id == get_machine_id(hostname, username)

(***************************************************************************)
(* get_machine_id (lib.rs:24-37)                                           *)
(***************************************************************************)
GetMachineId ==
    /\ last' = [op |-> "get_machine_id",
                ret |-> current_machine_id]
    /\ UNCHANGED <<hostname, username, store, calls>>

(***************************************************************************)
(* get_stored_license (lib.rs:51-69)                                       *)
(***************************************************************************)
\* variant: the machine binding is not checked
MachineIdIgnored(license, machine_id) == TRUE

\* lib.rs:61: the record belongs to this machine
MachineIdMatches(license, machine_id) == license.machine_id = machine_id

\* variant: a record that does not decode is reported as absent
get_stored_license_lenient(open, value, machine_id) ==
    IF IsErr(open) THEN Err(open.msg)
    ELSE IF IsSome(value) /\ IsOk(from_value(value.val))
              /\ MachineIdMatches(from_value(value.val).val, machine_id)
         THEN Ok(Some(from_value(value.val).val))
         ELSE Ok(None)

\* the value get_stored_license returns when app.store gives open, the
\* store holds value and get_machine_id gives machine_id
get_stored_license(open, value, machine_id) ==
    IF IsErr(open) THEN Err(open.msg)
    ELSE IF IsSome(value)
         THEN LET license == from_value(value.val)
              IN  IF IsErr(license) THEN Err(license.msg)
                  ELSE IF ~MachineIdMatches(license.val, machine_id)
                       THEN Ok(None)
                       ELSE Ok(Some(license.val))
         ELSE Ok(None)

\* variant: a record of another machine is deleted by the read
GetStoredLicensePurging ==
    \E open \in StoreOpenResults :
        LET ret == get_stored_license(open, store, current_machine_id)
        IN  /\ last' = [op |-> "get_stored_license", open |-> open, ret |-> ret]
            /\ store' = IF IsOk(open) /\ IsSome(store) /\ ret = Ok(None)
                        THEN None ELSE store
            /\ UNCHANGED <<hostname, username, calls>>

GetStoredLicense ==
    \E open \in StoreOpenResults :
        /\ last' = [op |-> "get_stored_license", open |-> open,
                    ret |-> get_stored_license(open, store, current_machine_id)]
        /\ UNCHANGED <<hostname, username, store, calls>>

(***************************************************************************)
(* validate_license (lib.rs:73-130).  The command suspends once on the     *)
(* network: ValidateStart runs it up to send() (lib.rs:78-91),             *)
(* ValidateResume from the arrival of the response to the return           *)
(* (lib.rs:92-129); nothing after send() reads shared state before the     *)
(* persistence step, which has no suspension point.                        *)
(***************************************************************************)
\* the locals and the request of an invocation suspended in send().await
NewCall(license_code, supabase_url, machine_id) ==
    [license_code |-> license_code,
     machine_id |-> machine_id,
     url |-> supabase_url \o "/functions/v1/validate-desktop-license",
     body |-> [licenseCode |-> license_code, machineId |-> machine_id]]

ValidateStart ==
    \E license_code \in LicenseCodes :
        /\ BagCardinality(calls) < MaxCalls
        /\ calls' = calls (+) SetToBag({NewCall(license_code, SupabaseUrl,
                                                current_machine_id)})
        /\ UNCHANGED <<hostname, username, store, last>>

\* variant: the transport failure is folded into a LicenseValidation
NetworkErrorFolded(e) ==
    Ok([valid |-> FALSE, plan_tier |-> None,
        error |-> Some("Network error: " \o e)])

\* lib.rs:93: send() failed
NetworkError(e) == Err("Network error: " \o e)

\* lib.rs:96: response.text().await.unwrap_or_default()
unwrap_or_default(text) == IF IsOk(text) THEN text.val ELSE ""

\* lib.rs:97-101: the status is not a success
ValidationFailed(error_text) ==
    Ok(LicenseValidation(FALSE, None, Some("Validation failed: " \o error_text)))

\* variant: the decode failure is folded into a LicenseValidation
ParseErrorFolded(e) ==
    Ok([valid |-> FALSE, plan_tier |-> None,
        error |-> Some("Parse error: " \o e)])

\* lib.rs:107: the body is no LicenseValidation
ParseError(e) == Err("Parse error: " \o e)

\* variant: the valid flag is not consulted
PersistWheneverTier(validation) == IsSome(validation.plan_tier)

\* lib.rs:110-111: if validation.valid { if let Some(ref plan_tier) = ...
ShouldPersist(validation) == validation.valid /\ IsSome(validation.plan_tier)

\* variant: code and plan_tier are exchanged
StoredLicenseSwapped(license_code, plan_tier, activated_at, machine_id) ==
    [code |-> plan_tier, plan_tier |-> license_code,
     activated_at |-> activated_at, machine_id |-> machine_id]

\* lib.rs:112-117
NewStoredLicense(license_code, plan_tier, activated_at, machine_id) ==
    [code |-> license_code, plan_tier |-> plan_tier,
     activated_at |-> activated_at, machine_id |-> machine_id]

\* variant: an existing record is kept
StoreSetIfAbsent(old, value) == IF IsSome(old) THEN old ELSE Some(value)

\* variant: the members of an existing record are updated one by one and
\* machine_id is left out
StoreSetMerge(old, value) ==
    IF IsSome(old) /\ "machine_id" \in DOMAIN old.val
    THEN Some([value EXCEPT !.machine_id = old.val.machine_id])
    ELSE Some(value)

\* variant: only an existing key is updated
StoreSetIfPresent(old, value) == IF IsSome(old) THEN Some(value) ELSE old

\* lib.rs:121-124: store.set("license", value) on a store holding old
StoreSet(old, value) == Some(value)

\* lib.rs:125,129: the outcome of save() is discarded
ReturnAfterSave(save, validation) == Ok(validation)

\* no persistence step was reached
NotPersisted(ret, st) == [ret |-> ret, store |-> st, persist |-> None]

\* variant: a valid result without plan tier is stored under a default tier
PersistDefaultTier(call, validation, open, save, now, st) ==
    IF ~validation.valid THEN NotPersisted(Ok(validation), st)
    ELSE IF IsErr(open)
         THEN [ret |-> Err(open.msg), store |-> st,
               persist |-> Some([open |-> open, save |-> None, prior |-> st])]
         ELSE LET plan_tier == IF IsSome(validation.plan_tier)
                               THEN validation.plan_tier.val ELSE "free"
                  stored_license ==
                      NewStoredLicense(call.license_code, plan_tier,
                                       to_rfc3339(now), call.machine_id)
              IN  [ret |-> Ok(validation),
                   store |-> Some(to_value(stored_license)),
                   persist |-> Some([open |-> open, save |-> Some(save),
                                     prior |-> st])]

\* variant: the machine id is computed again when the record is built
PersistRecomputing(call, validation, open, save, now, st) ==
    IF ~ShouldPersist(validation) THEN NotPersisted(Ok(validation), st)
    ELSE IF IsErr(open)
         THEN [ret |-> Err(open.msg), store |-> st,
               persist |-> Some([open |-> open, save |-> None, prior |-> st])]
         ELSE LET stored_license ==
                      NewStoredLicense(call.license_code, validation.plan_tier.val,
                                       to_rfc3339(now), current_machine_id)
              IN  [ret |-> Ok(validation),
                   store |-> Some(to_value(stored_license)),
                   persist |-> Some([open |-> open, save |-> Some(save),
                                     prior |-> st])]

\* lib.rs:110-129 for a decoded validation
Persist(call, validation, open, save, now, st) ==
    IF ~ShouldPersist(validation) THEN NotPersisted(Ok(validation), st)
    ELSE IF IsErr(open)
         THEN [ret |-> Err(open.msg), store |-> st,
               persist |-> Some([open |-> open, save |-> None, prior |-> st])]
         ELSE LET stored_license ==
                      NewStoredLicense(call.license_code, validation.plan_tier.val,
                                       to_rfc3339(now), call.machine_id)
                  content == StoreSet(st, to_value(stored_license))
              IN  [ret |-> ReturnAfterSave(save, validation),
                   store |-> content,
                   persist |-> Some([open |-> open, save |-> Some(save),
                                     prior |-> st])]

\* lib.rs:92-129: the rest of the command once the network has answered
validate_license(call, response, open, save, now, st) ==
    IF IsErr(response.send) THEN NotPersisted(NetworkError(response.send.msg), st)
    ELSE LET resp == response.send.val
         IN  IF ~is_success(resp.status)
             THEN NotPersisted(ValidationFailed(unwrap_or_default(ResponseText(resp))),
                               st)
             ELSE LET validation == ResponseJson(resp)
                  IN  IF IsErr(validation)
                      THEN NotPersisted(ParseError(validation.msg), st)
                      ELSE Persist(call, validation.val, open, save, now, st)

\* whether the command, given this response, reaches lib.rs:112
ReachesPersist(response) ==
    /\ IsOk(response.send)
    /\ is_success(response.send.val.status)
    /\ IsOk(ResponseJson(response.send.val))
    /\ ShouldPersist(ResponseJson(response.send.val).val)

\* the outcomes of app.store, store.save and Utc::now that the command can
\* observe: none of them unless it persists, no save once app.store failed
PersistInputs(response) ==
    LET o1 == CHOOSE o \in StoreOpenResults : IsOk(o)
        s1 == CHOOSE v \in SaveResults : IsOk(v)
        n1 == CHOOSE n \in ClockReadings : TRUE
    IN  IF ReachesPersist(response)
        THEN {<<o, s1, n>> : o \in {o \in StoreOpenResults : IsErr(o)},
                             n \in ClockReadings}
             \cup {<<o, v, n>> : o \in {o \in StoreOpenResults : IsOk(o)},
                                 v \in SaveResults, n \in ClockReadings}
        ELSE {<<o1, s1, n1>>}

\* the command that returned last is a clear_license that ran while this
\* invocation was suspended
ClearedInFlight(call) ==
    /\ last.op = "clear_license"
    /\ IsOk(last.ret)
    /\ BagIn(call, last.pending)

ValidateResume ==
    \E call \in BagToSet(calls), response \in Responses :
      \E io \in PersistInputs(response) :
        LET open == io[1]
            save == io[2]
            now == io[3]
            out == validate_license(call, response, open, save, now, store)
        IN  /\ calls' = calls (-) SetToBag({call})
            /\ store' = out.store
            /\ last' = [op |-> "validate_license",
                        request |-> [url |-> call.url, body |-> call.body],
                        response |-> response, persist |-> out.persist,
                        overtook |-> ClearedInFlight(call),
                        ret |-> out.ret]
            /\ UNCHANGED <<hostname, username>>

(***************************************************************************)
(* clear_license (lib.rs:134-141)                                          *)
(***************************************************************************)
Unit == <<>>

\* variant: the key is not removed
StoreDeleteKeep(old) == old

\* lib.rs:137: store.delete("license") removes the key from the store; what
\* it returns is discarded
StoreDelete(old) == None

\* variant: the outcome of save() is returned
ReturnSaveOutcome(save) == IF IsErr(save) THEN Err(save.msg) ELSE Ok(Unit)

\* lib.rs:138,140: the outcome of save() is discarded
ReturnAfterClear(save) == Ok(Unit)

\* variant: deleting a record that does not exist is an error
clear_license_strict(open, save, st) ==
    IF IsErr(open)
    THEN [ret |-> Err(open.msg), store |-> st, save |-> None, existed |-> None]
    ELSE IF IsSome(st)
         THEN [ret |-> Ok(Unit), store |-> None, save |-> Some(save),
               existed |-> Some(TRUE)]
         ELSE [ret |-> Err("no such key"), store |-> st, save |-> None,
               existed |-> Some(FALSE)]

\* existed: what store.delete returns, whether the key was there
clear_license(open, save, st) ==
    IF IsErr(open)
    THEN [ret |-> Err(open.msg), store |-> st, save |-> None, existed |-> None]
    ELSE [ret |-> ReturnAfterClear(save), store |-> StoreDelete(st),
          save |-> Some(save), existed |-> Some(IsSome(st))]

ClearLicense ==
    \E open \in StoreOpenResults, save \in SaveResults :
        LET out == clear_license(open, save, store)
        IN  /\ store' = out.store
            /\ last' = [op |-> "clear_license", open |-> open,
                        save |-> out.save, existed |-> out.existed,
                        pending |-> calls, ret |-> out.ret]
            /\ UNCHANGED <<hostname, username, calls>>

(***************************************************************************)
(* The environment: the host's identity attributes change.                 *)
(***************************************************************************)
ChangeIdentity ==
    \E h \in HostnameResults, u \in Usernames :
        /\ <<h, u>> # <<hostname, username>>
        /\ hostname' = h
        /\ username' = u
        /\ UNCHANGED <<store, calls, last>>

Init ==
    /\ hostname \in HostnameResults
    /\ username \in Usernames
    /\ store \in InitialStoreValues
    /\ calls = EmptyBag
    /\ last = [op |-> "none"]

Next ==
    \/ GetMachineId
    \/ GetStoredLicense
    \/ ValidateStart
    \/ ValidateResume
    \/ ClearLicense
    \/ ChangeIdentity

Spec == Init /\ [][Next]_vars

(***************************************************************************)
(* get_machine_id over a wider range of hostnames and usernames.           *)
(***************************************************************************)
\* "a", "Z", U+00E9, U+10FFFF (the largest char)
HashChars == {97, 90, 233, 1114111}

\* the names of one repeated character up to MaxNameLen, and the mixed ones
HashNames ==
    {[i \in 1..n |-> c] : n \in 0..MaxNameLen, c \in HashChars}
        \cup {HostBox1, UserAlice, Unknown}

HashHostnameResults == {Ok(h) : h \in HashNames} \cup {Err("hostname lookup failed")}

HashInit ==
    /\ hostname \in HashHostnameResults
    /\ username \in HashNames
    /\ store = None
    /\ calls = EmptyBag
    /\ last = [op |-> "none"]

HashNext == GetMachineId

HashSpec == HashInit /\ [][HashNext]_vars

(***************************************************************************)
(* Properties.                                                             *)
(***************************************************************************)
\* the command that returned last is a get_stored_license whose store opened
GotWithStore(l) == l.op = "get_stored_license" /\ IsOk(l.open)

\* the response is an HTTP success whose body decodes as a LicenseValidation
Decoded(response) ==
    /\ IsOk(response.send)
    /\ is_success(response.send.val.status)
    /\ IsOk(response.send.val.body)
    /\ IsOk(DecodeValidation(response.send.val.body.val))

DecodedValidation(response) == DecodeValidation(response.send.val.body.val).val

\* the response is a decodable HTTP success with valid == true and a plan tier
Activating(response) ==
    /\ Decoded(response)
    /\ DecodedValidation(response).valid
    /\ IsSome(DecodedValidation(response).plan_tier)

\* the command that returned last is a validate_license that reported an
\* activation: Ok with valid == true and a plan tier
ReturnedActivation(l) ==
    /\ l.op = "validate_license"
    /\ IsOk(l.ret)
    /\ l.ret.val.valid
    /\ IsSome(l.ret.val.plan_tier)

\* the store holds a decodable StoredLicense
HoldsLicense(st) == IsSome(st) /\ IsOk(from_value(st.val))
LicenseIn(st) == from_value(st.val).val

\* C1: whenever get_stored_license runs on a store holding a decodable record
\* r while the machine id is m, it returns r if r.machine_id = m and
\* otherwise Ok(None), the value it returns for an empty store.
C1_BindingInvariant ==
    [][(GotWithStore(last') /\ UNCHANGED <<hostname, username, calls>>
            /\ HoldsLicense(store))
        => LET r == LicenseIn(store)
               m == current_machine_id
           IN  /\ (last'.ret = Ok(Some(r))) <=> (r.machine_id = m)
               /\ r.machine_id # m =>
                     /\ last'.ret = Ok(None)
                     /\ last'.ret = get_stored_license(last'.open, None, m)]_vars

\* C1 witness: a record of another machine is in the store and the read that
\* just returned reported none
C1_Witness ==
    /\ GotWithStore(last)
    /\ HoldsLicense(store)
    /\ LicenseIn(store).machine_id # current_machine_id
    /\ last.ret = Ok(None)

\* C2: a step changes the "license" record only if it is the return of a
\* validate_license whose response was an HTTP success decoding to valid ==
\* true with a plan tier (the record is then present), or the return of a
\* clear_license (the record is then absent); every other step, the failed
\* validations included, leaves the record as it was.
C2_WritersOnly ==
    [][store' # store
        => \/ /\ last'.op = "validate_license"
              /\ calls' # calls
              /\ Activating(last'.response)
              /\ IsSome(store')
           \/ /\ last'.op = "clear_license"
              /\ store' = None]_vars

\* C2 witness: a validation answered valid == false has returned and the
\* record of an earlier activation is still in the store
C2_Witness ==
    /\ last.op = "validate_license"
    /\ Decoded(last.response)
    /\ ~DecodedValidation(last.response).valid
    /\ HoldsLicense(store)
    /\ LicenseIn(store).code \in LicenseCodes

\* C3: when validate_license has reported an activation, the store holds one
\* record, whose code and plan tier are those of that call, whatever record
\* was there before.
C3_OverwriteOnReactivation ==
    ReturnedActivation(last)
        => /\ HoldsLicense(store)
           /\ LicenseIn(store).code = last.request.body.licenseCode
           /\ LicenseIn(store).plan_tier = last.ret.val.plan_tier.val

\* C3 witness: the second of two activations with different codes has
\* returned; the record it replaced carried the other code, and the store
\* holds the second call's code
C3_Witness ==
    /\ ReturnedActivation(last)
    /\ HoldsLicense(last.persist.val.prior)
    /\ LicenseIn(last.persist.val.prior).code \in LicenseCodes
    /\ LicenseIn(last.persist.val.prior).code # last.request.body.licenseCode
    /\ LicenseIn(store).code = last.request.body.licenseCode

\* C4: a validate_license that received an activating response (and could
\* open the store) returned valid == true with the response's plan tier, and
\* a get_stored_license that runs next under the same machine id returns a
\* record with the call's code and that plan tier.
C4_ActivationRoundTrip ==
    [][(/\ last.op = "validate_license"
        /\ Activating(last.response)
        /\ IsOk(last.persist.val.open))
        => LET p == DecodedValidation(last.response).plan_tier
           IN  /\ IsOk(last.ret)
               /\ last.ret.val.valid
               /\ last.ret.val.plan_tier = p
               /\ (GotWithStore(last')
                     /\ current_machine_id = last.request.body.machineId)
                    => /\ IsOk(last'.ret)
                       /\ IsSome(last'.ret.val)
                       /\ last'.ret.val.val.code = last.request.body.licenseCode
                       /\ last'.ret.val.val.plan_tier = p.val]_vars

\* C4 witness: the read that just returned gave the record an activation on
\* this machine wrote
C4_Witness ==
    /\ GotWithStore(last)
    /\ IsOk(last.ret)
    /\ IsSome(last.ret.val)
    /\ last.ret.val.val.code \in LicenseCodes
    /\ last.ret.val.val.machine_id = current_machine_id

\* this step is the return of a validate_license
ValidateReturns ==
    /\ last'.op = "validate_license"
    /\ BagCardinality(calls') < BagCardinality(calls)

\* the inner failure value {valid: false, planTier: none, error: text}
Rejected(text) == Ok([valid |-> FALSE, plan_tier |-> None, error |-> Some(text)])

Undecodable(response) ==
    /\ IsOk(response.send)
    /\ response.send.val.status >= 200
    /\ response.send.val.status < 300
    /\ ~(/\ IsOk(response.send.val.body)
         /\ IsOk(DecodeValidation(response.send.val.body.val)))

\* what decoding the body failed with
DecodeCause(response) ==
    IF IsOk(response.send.val.body)
    THEN DecodeValidation(response.send.val.body.val).msg
    ELSE response.send.val.body.msg

HttpFailure(response) ==
    /\ IsOk(response.send)
    /\ (response.send.val.status < 200 \/ response.send.val.status >= 300)

\* C7: after a response with a non-2xx status, whatever its body,
\* validate_license returns the success value {valid: false, planTier: none,
\* error: "Validation failed: <body text>"}, the text being empty when the
\* body cannot be read, and the store is unchanged.
C7_HttpFailureFolded ==
    [][(ValidateReturns /\ HttpFailure(last'.response))
        => LET body == last'.response.send.val.body
               error_text == IF IsOk(body) THEN body.val ELSE ""
           IN  /\ last'.ret = Rejected("Validation failed: " \o error_text)
               /\ store' = store]_vars

\* C7 witness: a validation answered 403 with a body that would activate
\* under a 2xx status has returned the inner failure
C7_Witness ==
    /\ last.op = "validate_license"
    /\ HttpFailure(last.response)
    /\ last.response.send.val.body = Ok(BodyPro)
    /\ IsOk(last.ret)
    /\ ~last.ret.val.valid

\* C8 as stated: validate_license reports an activation only if the save of
\* its record succeeded; a failed save is returned as the outer error.
C8_SaveFailureSurfaced ==
    (last.op = "validate_license" /\ IsSome(last.persist)
        /\ IsSome(last.persist.val.save) /\ IsErr(last.persist.val.save.val))
        => IsErr(last.ret)

C10_CorruptRecordReported ==
    [][(GotWithStore(last') /\ IsSome(store) /\ ~HoldsLicense(store))
        => /\ IsErr(last'.ret)
           /\ store' = store]_vars

\* C10 witness: a read of the corrupt record has returned an error and the
\* record is still there
C10_Witness ==
    /\ GotWithStore(last)
    /\ IsErr(last.ret)
    /\ store = Some(CorruptValue)

\* C11: a clear_license that runs on a store without a record (and can open
\* the store) returns Ok and leaves the record absent; a clear_license that
\* runs right after another one leaves the store and the result of the first.
C11_IdempotentClear ==
    [][(last'.op = "clear_license" /\ IsOk(last'.open))
        => /\ store = None => (last'.ret = Ok(Unit) /\ store' = None)
           /\ (last.op = "clear_license" /\ IsOk(last.open))
                => (store' = store /\ last'.ret = last.ret)]_vars

\* C11 witness: a clear that found no record has returned Ok and the record
\* is absent
C11_Witness ==
    /\ last.op = "clear_license"
    /\ last.existed = Some(FALSE)
    /\ last.ret = Ok(Unit)
    /\ store = None

\* the store holds a decodable record of another machine
HoldsForeign(st) ==
    HoldsLicense(st) /\ LicenseIn(st).machine_id # current_machine_id

\* C12: once a clear_license has returned Ok the record is absent, whatever
\* the store held; while it is absent, and likewise while a record of
\* another machine is present, every get_stored_license (that can open the
\* store) returns none; an absent record becomes present only through the
\* write of a validate_license.
C12_AbsentAfterClear ==
    [][/\ (last'.op = "clear_license" /\ IsOk(last'.ret)) => store' = None
       /\ (GotWithStore(last') /\ UNCHANGED <<hostname, username, calls>>
             /\ (store = None \/ HoldsForeign(store)))
            => last'.ret = Ok(None)
       /\ (store = None /\ store' # None)
            => (ValidateReturns /\ IsSome(last'.persist))]_vars

\* C12 witness: a clear that found a record has returned and the record is
\* absent
C12_Witness ==
    /\ last.op = "clear_license"
    /\ last.existed = Some(TRUE)
    /\ IsOk(last.ret)
    /\ store = None

\* C13: every value validate_license returns, whatever the authority
\* answered, has a plan tier only when valid and an error only when not valid.
C13_TierAndErrorFollowValid ==
    (last.op = "validate_license" /\ IsOk(last.ret))
        => /\ IsSome(last.ret.val.plan_tier) => last.ret.val.valid
           /\ IsSome(last.ret.val.error) => ~last.ret.val.valid

\* the invocation that this step takes out of the bag of suspended ones
Returning(call) == CopiesIn(call, calls') = CopiesIn(call, calls) - 1

\* C14: whenever a validate_license reports an activation, also while other
\* invocations are in flight or have written before it, the one record in
\* the store has the code and the machine id of that invocation and the plan
\* tier of its response.
C14_RecordFromOneCall ==
    [][(ValidateReturns /\ ReturnedActivation(last'))
        => \E call \in BagToSet(calls) :
              /\ Returning(call)
              /\ call.body = last'.request.body
              /\ HoldsLicense(store')
              /\ LicenseIn(store').code = call.license_code
              /\ LicenseIn(store').machine_id = call.machine_id
              /\ LicenseIn(store').plan_tier
                    = DecodedValidation(last'.response).plan_tier.val]_vars

\* C14 witness: an activation has returned over the record of an activation
\* with another code and another machine id, and the record is its own
C14_Witness ==
    /\ ReturnedActivation(last)
    /\ HoldsLicense(last.persist.val.prior)
    /\ LicenseIn(last.persist.val.prior).code \in LicenseCodes
    /\ LicenseIn(last.persist.val.prior).code # last.request.body.licenseCode
    /\ LicenseIn(last.persist.val.prior).machine_id # last.request.body.machineId
    /\ LicenseIn(store).code = last.request.body.licenseCode
    /\ LicenseIn(store).machine_id = last.request.body.machineId

\* C16: get_stored_license leaves the store as it was, whatever it returns.
C16_ReadLeavesStore ==
    [][last'.op = "get_stored_license" => store' = store]_vars

\* C16 witness: a read has reported none for the record of another machine,
\* which is still in the store
C16_Witness ==
    /\ GotWithStore(last)
    /\ last.ret = Ok(None)
    /\ store = Some(to_value(ForeignLicense))

\* the response is a decodable HTTP success with valid == true and no plan tier
ValidWithoutTier(response) ==
    /\ Decoded(response)
    /\ DecodedValidation(response).valid
    /\ DecodedValidation(response).plan_tier = None

\* C17: after a 2xx response decoding to valid == true without plan tier,
\* validate_license leaves the store as it was and returns the decoded
\* value, valid == true.
C17_ValidWithoutTierNotStored ==
    [][(ValidateReturns /\ ValidWithoutTier(last'.response))
        => /\ store' = store
           /\ last'.persist = None
           /\ last'.ret = Ok(DecodedValidation(last'.response))
           /\ last'.ret.val.valid]_vars

\* C17 witness: validate_license has returned valid == true and there is no
\* record for get_stored_license to return
C17_Witness ==
    /\ last.op = "validate_license"
    /\ ValidWithoutTier(last.response)
    /\ IsOk(last.ret)
    /\ last.ret.val.valid
    /\ store = None

\* C18: a clear_license leaves the suspended validate_license invocations
\* in flight; when an invocation that a clear_license overtook then receives
\* an activating response (and can open the store), it writes its record,
\* and a get_stored_license that runs next under the same machine id returns
\* that record.
C18_WriteAfterClear ==
    [][/\ (last'.op = "clear_license" /\ last' # last) => calls' = calls
       /\ (ValidateReturns /\ last'.overtook /\ Activating(last'.response)
             /\ IsOk(last'.persist.val.open))
            => /\ ReturnedActivation(last')
               /\ HoldsLicense(store')
               /\ LicenseIn(store').code = last'.request.body.licenseCode
               /\ LicenseIn(store').machine_id = last'.request.body.machineId
       /\ (last.op = "validate_license" /\ last.overtook
             /\ ReturnedActivation(last) /\ GotWithStore(last')
             /\ current_machine_id = last.request.body.machineId)
            => /\ last'.ret = Ok(Some(LicenseIn(store)))
               /\ last'.ret.val.val.code = last.request.body.licenseCode]_vars

\* C18 witness: an invocation that was suspended while a clear_license
\* emptied the store has returned, and the store holds its record
C18_Witness ==
    /\ last.op = "validate_license"
    /\ last.overtook
    /\ ReturnedActivation(last)
    /\ last.persist.val.prior = None
    /\ HoldsLicense(store)
    /\ LicenseIn(store).code = last.request.body.licenseCode

\* C19: the machine id of a record that validate_license writes is the one
\* in the request of that invocation, computed when the command started,
\* whatever the machine id is when the record is written.
C19_MachineIdOfRequest ==
    [][(ValidateReturns /\ IsSome(last'.persist)
          /\ IsOk(last'.persist.val.open))
        => \E call \in BagToSet(calls) :
              /\ Returning(call)
              /\ call.body = last'.request.body
              /\ call.machine_id = call.body.machineId
              /\ HoldsLicense(store')
              /\ LicenseIn(store').machine_id = call.body.machineId]_vars

\* C19 witness: the record an activation wrote carries the machine id of its
\* request, which is not the machine id of the host now
C19_Witness ==
    /\ ReturnedActivation(last)
    /\ HoldsLicense(store)
    /\ LicenseIn(store).machine_id = last.request.body.machineId
    /\ last.request.body.machineId # current_machine_id

(***************************************************************************)
(* The machine id as the hash formula states it, computed digit by digit   *)
(* on hexadecimal digits, least significant first.                         *)
(***************************************************************************)
RefDigits == <<"0", "1", "2", "3", "4", "5", "6", "7",
               "8", "9", "A", "B", "C", "D", "E", "F">>

\* the width hex digits of a number below 2^31
RECURSIVE RefNumber(_, _)
RefNumber(v, width) ==
    IF width = 0 THEN <<>> ELSE <<v % 16>> \o RefNumber(v \div 16, width - 1)

\* the digits from position i on of a + b + carry modulo 16^Len(a)
RECURSIVE RefSumFrom(_, _, _, _)
RefSumFrom(a, b, i, carry) ==
    IF i > Len(a) THEN <<>>
    ELSE <<(a[i] + b[i] + carry) % 16>>
            \o RefSumFrom(a, b, i + 1, (a[i] + b[i] + carry) \div 16)

RefSum(a, b) == RefSumFrom(a, b, 1, 0)

\* the digits from position i on of a * k + carry modulo 16^Len(a)
RECURSIVE RefTimesFrom(_, _, _, _)
RefTimesFrom(a, k, i, carry) ==
    IF i > Len(a) THEN <<>>
    ELSE <<(a[i] * k + carry) % 16>>
            \o RefTimesFrom(a, k, i + 1, (a[i] * k + carry) \div 16)

RefTimes(a, k) == RefTimesFrom(a, k, 1, 0)

\* hash = ((hash + codepoint(c) * (i + 1)) * 31) mod 16^width over the first
\* n characters, from 0
RECURSIVE RefFold(_, _, _)
RefFold(info, n, width) ==
    IF n = 0 THEN RefNumber(0, width)
    ELSE RefTimes(RefSum(RefFold(info, n - 1, width),
                         RefNumber(info[n] * n, width)), 31)

\* the digits d[n], ..., d[1] as text
RECURSIVE RefHex(_, _)
RefHex(d, n) == IF n = 0 THEN "" ELSE RefDigits[d[n] + 1] \o RefHex(d, n - 1)

\* "hostname:username" of the host
RefInfo == (IF IsOk(hostname) THEN hostname.val ELSE Unknown) \o Colon \o username

\* the fold without the reduction modulo 2^64 (128 bits hold it)
RefExact == RefFold(RefInfo, Len(RefInfo), 32)

\* C15: get_machine_id returns "DSK-" and the 16 upper-case hex digits,
\* zero-padded, of the fold hash = ((hash + codepoint(c) * (i + 1)) * 31)
\* mod 2^64 over "hostname:username" from 0, so it is a function of the two
\* attributes and wraps on overflow.
C15_MachineIdIsFoldHash ==
    last.op = "get_machine_id"
        => last.ret = "DSK-" \o RefHex(RefFold(RefInfo, Len(RefInfo), 16), 16)

\* C15 witness: get_machine_id has returned the low 16 digits of a fold
\* whose exact value does not fit 64 bits
C15_Witness ==
    /\ last.op = "get_machine_id"
    /\ \E i \in 17..32 : RefExact[i] # 0
    /\ last.ret = "DSK-" \o RefHex(RefExact, 16)

====
